---------------------------- MODULE Spec2Model ----------------------------
(***************************************************************************)
(* State-machine model of the two DSP modules of the plugin:               *)
(*   Pass   (src/src/Pass.cpp)   : three inputs summed or averaged         *)
(*   Filter (src/src/Filter.cpp) : low / band / high pass filter bank      *)
(*                                                                         *)
(* Each module is one record holding the fields of the C++ struct plus the *)
(* host-side objects it talks to (params, inputs, outputs, lights).  One   *)
(* action is one call of process().                                        *)
(*                                                                         *)
(* Numbers.  Voltages are floats in the source.  Here a voltage is an      *)
(* integer number of millivolts; a filter coefficient is the fraction      *)
(* [n, d]; a product with a coefficient and a division are rounded down to *)
(* a whole millivolt.  M_PI is the fraction PiNum / PiDen.                 *)
(***************************************************************************)
EXTENDS Integers, Sequences, FiniteSets, TLC

VARIABLES pass, filter, calc

vars == <<pass, filter, calc>>

(***************************************************************************)
(* Bounds of the model.                                                    *)
(***************************************************************************)
\* most lanes (polyphony channels) a cable carries
MaxChannels == 2
\* most process() frames of the Filter module in one behaviour
MaxFrames == 3

(***************************************************************************)
(* Host-side ports.  A port is its connection flag and the lanes it        *)
(* carries; getChannels() is the number of lanes.                          *)
(***************************************************************************)
Disconnected == [connected |-> FALSE, voltages |-> <<>>]

Cable(lanes) == [connected |-> TRUE, voltages |-> lanes]

getChannels(port) == Len(port.voltages)

\* vector::resize(n, 0.0f) when n exceeds the size: new lanes are zero
Resize(v, n) == [i \in 1..n |-> IF i <= Len(v) THEN v[i] ELSE 0]

Min(a, b) == IF a <= b THEN a ELSE b

Abs(a) == IF a < 0 THEN -a ELSE a

RECURSIVE SumTo(_, _)
\* f[1] + ... + f[n]
SumTo(f, n) == IF n = 0 THEN 0 ELSE f[n] + SumTo(f, n - 1)

(***************************************************************************)
(*                              Pass module                                *)
(***************************************************************************)
\* number of input ports (enum InputId)
Pass_INPUTS_LEN == 3

\* what one process() call did, for the properties that speak of a frame
PassNoTrace ==
  [mid_sum |-> FALSE, mid_avg |-> FALSE, read |-> FALSE, avg_div |-> -1,
   sent |-> FALSE, set_channels |-> -1]

PassInit ==
  [num_channels |-> 0, voltages |-> <<>>,
   state_on |-> FALSE, last_state |-> FALSE,
   state_on_avg |-> FALSE, last_state_avg |-> FALSE,
   state_on_sum |-> FALSE, last_state_sum |-> FALSE,
   params |-> [POWER_PARAM |-> 0, SUM_PARAM |-> 0, AVG_PARAM |-> 0],
   inputs |-> [k \in 1..Pass_INPUTS_LEN |-> Disconnected],
   outputs |-> [channels |-> 0, voltages |-> <<>>],
   lights |-> [POWER_LIGHT_LIGHT |-> 0, SUM_LIGHT_LIGHT |-> 0, AVG_LIGHT_LIGHT |-> 0],
   trace |-> PassNoTrace]

Pass_updatePowerState_NoEdge(m) ==
  LET current_state == m.params.POWER_PARAM = 1
      on == IF current_state THEN ~m.state_on ELSE m.state_on
  IN [m EXCEPT !.state_on = on, !.last_state = current_state,
               !.lights.POWER_LIGHT_LIGHT = IF on THEN 1 ELSE 0]

Pass_updatePowerState(m) ==
  LET current_state == m.params.POWER_PARAM = 1
      on == IF current_state /\ ~m.last_state THEN ~m.state_on ELSE m.state_on
  IN [m EXCEPT !.state_on = on, !.last_state = current_state,
               !.lights.POWER_LIGHT_LIGHT = IF on THEN 1 ELSE 0]

Pass_updateModeStates_NoClear(m) ==
  LET current_state_sum == m.params.SUM_PARAM = 1
      m1 == IF current_state_sum /\ ~m.last_state_sum
              THEN [m EXCEPT !.state_on_sum = TRUE]
              ELSE m
      m2 == [m1 EXCEPT !.last_state_sum = current_state_sum,
                       !.trace.mid_sum = m1.state_on_sum,
                       !.trace.mid_avg = m1.state_on_avg]
      current_state_avg == m.params.AVG_PARAM = 1
      m3 == IF current_state_avg /\ ~m2.last_state_avg
              THEN [m2 EXCEPT !.state_on_avg = TRUE]
              ELSE m2
  IN [m3 EXCEPT !.last_state_avg = current_state_avg,
                !.lights.SUM_LIGHT_LIGHT = IF m3.state_on_sum THEN 1 ELSE 0,
                !.lights.AVG_LIGHT_LIGHT = IF m3.state_on_avg THEN 1 ELSE 0]

Pass_updateModeStates_SumLast(m) ==
  LET current_state_avg == m.params.AVG_PARAM = 1
      m1 == IF current_state_avg /\ ~m.last_state_avg
              THEN [m EXCEPT !.state_on_avg = TRUE, !.state_on_sum = FALSE]
              ELSE m
      m2 == [m1 EXCEPT !.last_state_avg = current_state_avg,
                       !.trace.mid_sum = m1.state_on_sum,
                       !.trace.mid_avg = m1.state_on_avg]
      current_state_sum == m.params.SUM_PARAM = 1
      m3 == IF current_state_sum /\ ~m2.last_state_sum
              THEN [m2 EXCEPT !.state_on_sum = TRUE, !.state_on_avg = FALSE]
              ELSE m2
  IN [m3 EXCEPT !.last_state_sum = current_state_sum,
                !.lights.SUM_LIGHT_LIGHT = IF m3.state_on_sum THEN 1 ELSE 0,
                !.lights.AVG_LIGHT_LIGHT = IF m3.state_on_avg THEN 1 ELSE 0]

Pass_updateModeStates_Toggle(m) ==
  LET current_state_sum == m.params.SUM_PARAM = 1
      m1 == IF current_state_sum /\ ~m.last_state_sum
              THEN [m EXCEPT !.state_on_sum = ~m.state_on_sum, !.state_on_avg = FALSE]
              ELSE m
      m2 == [m1 EXCEPT !.last_state_sum = current_state_sum,
                       !.trace.mid_sum = m1.state_on_sum,
                       !.trace.mid_avg = m1.state_on_avg]
      current_state_avg == m.params.AVG_PARAM = 1
      m3 == IF current_state_avg /\ ~m2.last_state_avg
              THEN [m2 EXCEPT !.state_on_avg = ~m2.state_on_avg, !.state_on_sum = FALSE]
              ELSE m2
  IN [m3 EXCEPT !.last_state_avg = current_state_avg,
                !.lights.SUM_LIGHT_LIGHT = IF m3.state_on_sum THEN 1 ELSE 0,
                !.lights.AVG_LIGHT_LIGHT = IF m3.state_on_avg THEN 1 ELSE 0]

Pass_updateModeStates(m) ==
  LET current_state_sum == m.params.SUM_PARAM = 1
      m1 == IF current_state_sum /\ ~m.last_state_sum
              THEN [m EXCEPT !.state_on_sum = TRUE, !.state_on_avg = FALSE]
              ELSE m
      \* the flags between the sum half and the avg half
      m2 == [m1 EXCEPT !.last_state_sum = current_state_sum,
                       !.trace.mid_sum = m1.state_on_sum,
                       !.trace.mid_avg = m1.state_on_avg]
      current_state_avg == m.params.AVG_PARAM = 1
      m3 == IF current_state_avg /\ ~m2.last_state_avg
              THEN [m2 EXCEPT !.state_on_avg = TRUE, !.state_on_sum = FALSE]
              ELSE m2
  IN [m3 EXCEPT !.last_state_avg = current_state_avg,
                !.lights.SUM_LIGHT_LIGHT = IF m3.state_on_sum THEN 1 ELSE 0,
                !.lights.AVG_LIGHT_LIGHT = IF m3.state_on_avg THEN 1 ELSE 0]

Pass_processInput_CountPorts(m, input) ==
  IF ~input.connected THEN m
  ELSE LET channels == getChannels(input)
           grown == IF channels > Len(m.voltages)
                      THEN Resize(m.voltages, channels) ELSE m.voltages
           inputVoltages == input.voltages
       IN [m EXCEPT !.voltages = [i \in 1..Len(grown) |->
                                    IF i <= channels THEN grown[i] + inputVoltages[i]
                                                     ELSE grown[i]],
                    !.num_channels = m.num_channels + 1]

Pass_processInput(m, input) ==
  IF ~input.connected THEN m
  ELSE LET channels == getChannels(input)
           grown == IF channels > Len(m.voltages)
                      THEN Resize(m.voltages, channels) ELSE m.voltages
           inputVoltages == input.voltages
       IN [m EXCEPT !.voltages = [i \in 1..Len(grown) |->
                                    IF i <= channels THEN grown[i] + inputVoltages[i]
                                                     ELSE grown[i]],
                    !.num_channels = m.num_channels + getChannels(input)]

Pass_processInputs_NoClear(m) ==
  LET m0 == [m EXCEPT !.num_channels = 0, !.trace.read = TRUE]
  IN Pass_processInput(Pass_processInput(Pass_processInput(m0, m.inputs[1]),
                                         m.inputs[2]), m.inputs[3])

Pass_processInputs(m) ==
  LET m0 == [m EXCEPT !.voltages = <<>>, !.num_channels = 0, !.trace.read = TRUE]
  IN Pass_processInput(Pass_processInput(Pass_processInput(m0, m.inputs[1]),
                                         m.inputs[2]), m.inputs[3])

\* voltage /= num_channels; a zero divisor leaves no finite value (0 here)
Pass_applyAverage(m) ==
  [m EXCEPT !.voltages = [i \in 1..Len(m.voltages) |->
                            IF m.num_channels = 0 THEN 0
                            ELSE m.voltages[i] \div m.num_channels],
            !.trace.avg_div = m.num_channels]

Pass_sendOutput_AllLanes(m) ==
  [m EXCEPT !.outputs = [channels |-> Len(m.voltages), voltages |-> m.voltages],
            !.trace.sent = TRUE, !.trace.set_channels = Len(m.voltages)]

Pass_sendOutput(m) ==
  [m EXCEPT !.outputs = [channels |-> 1, voltages |-> m.voltages],
            !.trace.sent = TRUE, !.trace.set_channels = 1]

Pass_disableOutput_KeepModes(m) ==
  [m EXCEPT !.outputs.channels = 0, !.trace.set_channels = 0]

Pass_disableOutput(m) ==
  [m EXCEPT !.outputs.channels = 0,
            !.state_on_sum = FALSE, !.state_on_avg = FALSE,
            !.lights.SUM_LIGHT_LIGHT = 0, !.lights.AVG_LIGHT_LIGHT = 0,
            !.trace.set_channels = 0]

Pass_process_NoGuard(m) ==
  LET m1 == Pass_updatePowerState(m)
  IN IF ~m1.state_on THEN Pass_disableOutput(m1)
     ELSE LET m2 == Pass_updateModeStates(m1)
              m3 == IF m2.state_on_sum \/ m2.state_on_avg
                      THEN Pass_processInputs(m2) ELSE m2
              m4 == IF m3.state_on_avg THEN Pass_applyAverage(m3) ELSE m3
          IN IF m3.num_channels > 0 THEN Pass_sendOutput(m4) ELSE m4

Pass_process_AlwaysRead(m) ==
  LET m1 == Pass_updatePowerState(m)
  IN IF ~m1.state_on THEN Pass_disableOutput(m1)
     ELSE LET m2 == Pass_updateModeStates(m1)
              m3 == Pass_processInputs(m2)
          IN IF m3.num_channels > 0
               THEN Pass_sendOutput(IF m3.state_on_avg THEN Pass_applyAverage(m3)
                                                      ELSE m3)
               ELSE m3

Pass_process_SilenceEmpty(m) ==
  LET m1 == Pass_updatePowerState(m)
  IN IF ~m1.state_on THEN Pass_disableOutput(m1)
     ELSE LET m2 == Pass_updateModeStates(m1)
              m3 == IF m2.state_on_sum \/ m2.state_on_avg
                      THEN Pass_processInputs(m2) ELSE m2
          IN IF m3.num_channels > 0
               THEN Pass_sendOutput(IF m3.state_on_avg THEN Pass_applyAverage(m3)
                                                      ELSE m3)
               ELSE [m3 EXCEPT !.outputs.channels = 0, !.trace.set_channels = 0]

Pass_process(m) ==
  LET m1 == Pass_updatePowerState(m)
  IN IF ~m1.state_on THEN Pass_disableOutput(m1)
     ELSE LET m2 == Pass_updateModeStates(m1)
              m3 == IF m2.state_on_sum \/ m2.state_on_avg
                      THEN Pass_processInputs(m2) ELSE m2
          IN IF m3.num_channels > 0
               THEN Pass_sendOutput(IF m3.state_on_avg THEN Pass_applyAverage(m3)
                                                      ELSE m3)
               ELSE m3

(***************************************************************************)
(* The host before a Pass frame: button values and what the cables carry.  *)
(***************************************************************************)
Button == {0, 1}

PassParams == [POWER_PARAM : Button, SUM_PARAM : Button, AVG_PARAM : Button]

\* millivolts on lane i of the cable plugged into input k
PassLane(k, i) == (CASE k = 1 -> 4000 [] k = 2 -> 2000 [] OTHER -> -1000) + 500 * (i - 1)

\* lane counts of the cables that may be plugged into input k; a cable with 0
\* lanes comes from an output whose channel count was set to 0
PassCableLanes(k) ==
  CASE k = 1 -> 0..MaxChannels [] k = 2 -> {1} [] OTHER -> {MaxChannels}

\* an input is unplugged, or carries one of the cables
PassPort(k) ==
  {Disconnected} \cup {Cable([i \in 1..c |-> PassLane(k, i)]) : c \in PassCableLanes(k)}

PassInputs ==
  {<<a, b, c>> : a \in PassPort(1), b \in PassPort(2), c \in PassPort(3)}

\* one process() call of the Pass module, the host having set the buttons to
\* one of P and the inputs to one of I
PassFrameOver(P, I) ==
  /\ \E p \in P, ins \in I :
       pass' = Pass_process([pass EXCEPT !.params = p, !.inputs = ins,
                                         !.trace = PassNoTrace])
  /\ UNCHANGED <<filter, calc>>

\* one sample frame of the Pass module
PassFrame == PassFrameOver(PassParams, PassInputs)

(***************************************************************************)
(*                             Filter module                               *)
(***************************************************************************)
\* M_PI as a fraction
PiNum == 355

PiDen == 113

\* FRQ_PARAM range set by configParam, in Hz
FRQ_MIN == -250

FRQ_MAX == 250

\* the band-pass stage's offset around the cutoff, in Hz
BandOffset == 5

RECURSIVE GCD(_, _)
GCD(a, b) == IF b = 0 THEN a ELSE GCD(b, a % b)

\* the fraction n / d in lowest terms
Frac(n, d) ==
  LET g == GCD(Abs(n), Abs(d))
  IN IF g = 0 THEN [n |-> n, d |-> d] ELSE [n |-> n \div g, d |-> d \div g]

\* coefficient times voltage, rounded down to a millivolt
Times(a, x) == (a.n * x) \div a.d

\* 1.0f - alpha
OneMinus(a) == [n |-> a.d - a.n, d |-> a.d]

\* lines 34-37 of calculateAlpha: twice the cutoff that omega is computed
\* from (twice, because sampleRate / 2.0f need not be a whole number)
EffectiveCutoff2_NoFabs(cutoff, sampleRate) ==
  IF 2 * cutoff > sampleRate THEN sampleRate ELSE 2 * cutoff

EffectiveCutoff2(cutoff, sampleRate) ==
  LET c == Abs(cutoff)
  IN IF 2 * c > sampleRate THEN sampleRate ELSE 2 * c

calculateAlpha_NoClamp(cutoff, sampleRate) ==
  LET c2 == 2 * Abs(cutoff)
  IN Frac(PiNum * c2, PiNum * c2 + PiDen * sampleRate)

\* omega = 2 pi cutoff / sampleRate = (PiNum c2) / (PiDen sampleRate);
\* alpha = omega / (omega + 1)
calculateAlpha(cutoff, sampleRate) ==
  LET c2 == EffectiveCutoff2(cutoff, sampleRate)
  IN Frac(PiNum * c2, PiNum * c2 + PiDen * sampleRate)

\* number of output ports (enum OutputId): low, band, high
Filter_OUTPUTS_LEN == 3

OUT_1_OUTPUT == 1

OUT_2_OUTPUT == 2

OUT_3_OUTPUT == 3

\* what one process() call did to each output
FilterNoTrace ==
  [set_channels |-> [k \in 1..Filter_OUTPUTS_LEN |-> -1],
   wrote |-> [k \in 1..Filter_OUTPUTS_LEN |-> FALSE],
   written |-> [k \in 1..Filter_OUTPUTS_LEN |-> <<>>],
   got_input |-> FALSE, after |-> <<>>]

\* the state after the constructor, which reads the engine's sample rate
FilterInit(rate, knob) ==
  [voltages |-> <<>>, state_on |-> FALSE, last_state |-> FALSE,
   prevLowPassSample |-> 0, prevHighPassSample |-> 0, prevInputSample |-> 0,
   sampleRate |-> rate,
   params |-> [POWER_PARAM |-> 0, FRQ_PARAM |-> knob],
   inputs |-> Disconnected,
   outputs |-> [k \in 1..Filter_OUTPUTS_LEN |->
                  [connected |-> FALSE, channels |-> 0, voltages |-> <<>>]],
   lights |-> [POWER_LIGHT_LIGHT |-> 0],
   trace |-> FilterNoTrace,
   frame |-> 0]

Filter_updatePowerState(m) ==
  LET current_state == m.params.POWER_PARAM = 1
      on == IF current_state /\ ~m.last_state THEN ~m.state_on ELSE m.state_on
  IN [m EXCEPT !.state_on = on, !.last_state = current_state,
               !.lights.POWER_LIGHT_LIGHT = IF on THEN 1 ELSE 0]

Filter_disableOutput_TwoOnly(m) ==
  [m EXCEPT !.outputs[OUT_1_OUTPUT].channels = 0,
            !.outputs[OUT_2_OUTPUT].channels = 0,
            !.trace.set_channels = [k \in 1..Filter_OUTPUTS_LEN |->
                                      IF k = OUT_3_OUTPUT THEN -1 ELSE 0]]

Filter_disableOutput(m) ==
  [m EXCEPT !.outputs[OUT_1_OUTPUT].channels = 0,
            !.outputs[OUT_2_OUTPUT].channels = 0,
            !.outputs[OUT_3_OUTPUT].channels = 0,
            !.trace.set_channels = [k \in 1..Filter_OUTPUTS_LEN |-> 0]]

\* setChannels(voltages.size()) at the head of a stage
Filter_setChannels(m, k) ==
  [m EXCEPT !.outputs[k].channels = Len(m.voltages),
            !.trace.set_channels[k] = Len(m.voltages)]

\* writeVoltages(voltages.data()) at the end of a stage
Filter_writeVoltages(m, k) ==
  [m EXCEPT !.outputs[k].voltages = m.voltages,
            !.trace.wrote[k] = TRUE, !.trace.written[k] = m.voltages]

RECURSIVE LowPassLoop(_, _, _)
\* the loop of ApplyLowPass from lane i on
LowPassLoop(m, i, alpha) ==
  IF i > Len(m.voltages) THEN m
  ELSE LET y == Times(alpha, m.voltages[i])
                  + Times(OneMinus(alpha), m.prevLowPassSample)
       IN LowPassLoop([m EXCEPT !.voltages[i] = y, !.prevLowPassSample = y],
                      i + 1, alpha)

ApplyLowPass(m) ==
  IF ~m.outputs[OUT_1_OUTPUT].connected THEN m
  ELSE LET cutoff == m.params.FRQ_PARAM
           alpha == calculateAlpha(cutoff, m.sampleRate)
       IN Filter_writeVoltages(
            LowPassLoop(Filter_setChannels(m, OUT_1_OUTPUT), 1, alpha),
            OUT_1_OUTPUT)

RECURSIVE BandPassLoop(_, _, _, _)
\* the loop of ApplyBandPass from lane i on
BandPassLoop(m, i, alphaLow, alphaHigh) ==
  IF i > Len(m.voltages) THEN m
  ELSE LET lowPass == Times(alphaLow, m.voltages[i])
                        + Times(OneMinus(alphaLow), m.prevLowPassSample)
           highPass == Times(alphaHigh, m.prevHighPassSample + m.voltages[i]
                                          - m.prevInputSample)
       IN BandPassLoop([m EXCEPT !.prevLowPassSample = lowPass,
                                 !.prevHighPassSample = highPass,
                                 !.prevInputSample = m.voltages[i],
                                 !.voltages[i] = lowPass - highPass],
                       i + 1, alphaLow, alphaHigh)

ApplyBandPass_NoGuard(m) ==
  LET cutoff == m.params.FRQ_PARAM
      alphaLow == calculateAlpha(Abs(cutoff - BandOffset), m.sampleRate)
      alphaHigh == calculateAlpha(Abs(cutoff + BandOffset), m.sampleRate)
  IN BandPassLoop(m, 1, alphaLow, alphaHigh)

ApplyBandPass(m) ==
  IF ~m.outputs[OUT_2_OUTPUT].connected THEN m
  ELSE LET cutoff == m.params.FRQ_PARAM
           lowCutoff == Abs(cutoff - BandOffset)
           highCutoff == Abs(cutoff + BandOffset)
           alphaLow == calculateAlpha(lowCutoff, m.sampleRate)
           alphaHigh == calculateAlpha(highCutoff, m.sampleRate)
       IN Filter_writeVoltages(
            BandPassLoop(Filter_setChannels(m, OUT_2_OUTPUT), 1, alphaLow, alphaHigh),
            OUT_2_OUTPUT)

RECURSIVE HighPassLoop(_, _, _)
\* the loop of ApplyHighPass from lane i on; prevInputSample is assigned from
\* voltages[i] after voltages[i] was overwritten
HighPassLoop(m, i, alpha) ==
  IF i > Len(m.voltages) THEN m
  ELSE LET y == Times(alpha, m.prevHighPassSample + m.voltages[i]
                               - m.prevInputSample)
       IN HighPassLoop([m EXCEPT !.voltages[i] = y, !.prevHighPassSample = y,
                                 !.prevInputSample = y],
                       i + 1, alpha)

ApplyHighPass(m) ==
  IF ~m.outputs[OUT_3_OUTPUT].connected THEN m
  ELSE LET cutoff == m.params.FRQ_PARAM
           alpha == calculateAlpha(cutoff, m.sampleRate)
       IN Filter_writeVoltages(
            HighPassLoop(Filter_setChannels(m, OUT_3_OUTPUT), 1, alpha),
            OUT_3_OUTPUT)

GetInput_NoClear(m) ==
  IF ~m.inputs.connected THEN m
  ELSE [m EXCEPT !.voltages = m.inputs.voltages, !.trace.got_input = TRUE]

GetInput(m) ==
  IF ~m.inputs.connected THEN [m EXCEPT !.voltages = <<>>]
  ELSE [m EXCEPT !.voltages = m.inputs.voltages, !.trace.got_input = TRUE]

\* the buffer and the three persisted samples, as a stage finds or leaves them
Snap(m) ==
  [voltages |-> m.voltages, prevLowPassSample |-> m.prevLowPassSample,
   prevHighPassSample |-> m.prevHighPassSample,
   prevInputSample |-> m.prevInputSample]

Filter_process_BandFirst(m) ==
  LET m1 == Filter_updatePowerState(m)
  IN IF ~m1.state_on THEN Filter_disableOutput(m1)
     ELSE LET g == GetInput(m1)
              l == ApplyBandPass(g)
              b == ApplyLowPass(l)
              h == ApplyHighPass(b)
          IN [h EXCEPT !.trace.after = <<Snap(g), Snap(l), Snap(b), Snap(h)>>]

\* trace.after holds the buffer and samples after GetInput and after each of
\* the three stages, in the order of the calls
Filter_process(m) ==
  LET m1 == Filter_updatePowerState(m)
  IN IF ~m1.state_on THEN Filter_disableOutput(m1)
     ELSE LET g == GetInput(m1)
              l == ApplyLowPass(g)
              b == ApplyBandPass(l)
              h == ApplyHighPass(b)
          IN [h EXCEPT !.trace.after = <<Snap(g), Snap(l), Snap(b), Snap(h)>>]

(***************************************************************************)
(* The host before a Filter frame.                                         *)
(***************************************************************************)
\* millivolts on lane i of the input cable
FilterLane(i) == IF i % 2 = 1 THEN 5000 ELSE -3000

FilterInputs ==
  {Disconnected} \cup {Cable([i \in 1..c |-> FilterLane(i)]) : c \in {1, MaxChannels}}

\* which of the three outputs have a cable
FilterPatches == [1..Filter_OUTPUTS_LEN -> BOOLEAN]

\* sample rates the engine may report to the constructor, in Hz
FilterSampleRates == {400, 44100}

\* positions of the cutoff knob
FilterKnobs == {FRQ_MIN, FRQ_MAX}

FilterInits == {FilterInit(r, c) : r \in FilterSampleRates, c \in FilterKnobs}

\* one process() call of the Filter module, the host having set the power
\* button to one of B, the input to one of I and the output cables to one of O
FilterFrameOver(B, I, O) ==
  /\ filter.frame < MaxFrames
  /\ \E b \in B, in \in I, patch \in O :
       filter' = Filter_process(
                   [filter EXCEPT !.params.POWER_PARAM = b, !.inputs = in,
                                  !.outputs = [k \in 1..Filter_OUTPUTS_LEN |->
                                     [filter.outputs[k] EXCEPT !.connected = patch[k]]],
                                  !.trace = FilterNoTrace,
                                  !.frame = filter.frame + 1])
  /\ UNCHANGED <<pass, calc>>

\* one sample frame of the Filter module
FilterFrame == FilterFrameOver(Button, FilterInputs, FilterPatches)

(***************************************************************************)
(* calculateAlpha as a function: calc holds the arguments and, once the    *)
(* call was made, the results.                                             *)
(***************************************************************************)
NoFrac == [n |-> 0, d |-> 0]

CalcInit(c, ref, rate) ==
  [cutoff |-> c, ref |-> ref, sampleRate |-> rate,
   done |-> FALSE, alpha |-> NoFrac, eff2 |-> 0,
   ref_done |-> FALSE, ref_alpha |-> NoFrac,
   band_done |-> FALSE, alphaLow |-> NoFrac, alphaHigh |-> NoFrac,
   lowEff2 |-> 0, highEff2 |-> 0]

\* the cutoffs the stages can pass, and three far beyond the knob's range
CalcCutoffs ==
  ((FRQ_MIN - BandOffset)..(FRQ_MAX + BandOffset))
    \cup {-30000, -22050, -10000, 10000, 22050, 30000}

CalcRefs == {22050}

CalcSampleRates == {1, 400, 44100, 48000}

CalcInits ==
  {CalcInit(c, ref, r) : c \in CalcCutoffs, ref \in CalcRefs, r \in CalcSampleRates}

\* calculateAlpha(cutoff, sampleRate)
CalcAlpha ==
  /\ ~calc.done
  /\ calc' = [calc EXCEPT !.done = TRUE,
                          !.alpha = calculateAlpha(calc.cutoff, calc.sampleRate),
                          !.eff2 = EffectiveCutoff2(calc.cutoff, calc.sampleRate)]
  /\ UNCHANGED <<pass, filter>>

\* calculateAlpha(ref, sampleRate)
CalcRef ==
  /\ ~calc.ref_done
  /\ calc' = [calc EXCEPT !.ref_done = TRUE,
                          !.ref_alpha = calculateAlpha(calc.ref, calc.sampleRate)]
  /\ UNCHANGED <<pass, filter>>

\* the two calls of ApplyBandPass, for a cutoff the knob can be set to
CalcBand ==
  /\ ~calc.band_done
  /\ calc.cutoff \in FRQ_MIN..FRQ_MAX
  /\ LET lowCutoff == Abs(calc.cutoff - BandOffset)
         highCutoff == Abs(calc.cutoff + BandOffset)
     IN calc' = [calc EXCEPT
                   !.band_done = TRUE,
                   !.alphaLow = calculateAlpha(lowCutoff, calc.sampleRate),
                   !.alphaHigh = calculateAlpha(highCutoff, calc.sampleRate),
                   !.lowEff2 = EffectiveCutoff2(lowCutoff, calc.sampleRate),
                   !.highEff2 = EffectiveCutoff2(highCutoff, calc.sampleRate)]
  /\ UNCHANGED <<pass, filter>>

(***************************************************************************)
(* Specifications.                                                         *)
(***************************************************************************)
FilterIdle == FilterInit(44100, 0)

CalcIdle == CalcInit(0, 22050, 44100)

\* both modules, each stepping on its own; the host moves the buttons and
\* plugs the Filter's cables in or out all at once
Init == pass = PassInit /\ filter \in FilterInits /\ calc = CalcIdle

AllOrNone == {[k \in 1..Filter_OUTPUTS_LEN |-> b] : b \in BOOLEAN}

PowerPassFrame == PassFrameOver(PassParams, {pass.inputs})

PowerFilterFrame ==
  FilterFrameOver(Button, {Disconnected, Cable(<<FilterLane(1)>>)}, AllOrNone)

Next == PowerPassFrame \/ PowerFilterFrame

Spec == Init /\ [][Next]_vars

\* the Pass module alone
PassSpecInit == pass = PassInit /\ filter = FilterIdle /\ calc = CalcIdle

PassSpec == PassSpecInit /\ [][PassFrame]_vars

\* the Filter module alone
FilterSpecInit == pass = PassInit /\ filter \in FilterInits /\ calc = CalcIdle

FilterSpec == FilterSpecInit /\ [][FilterFrame]_vars

\* calculateAlpha alone
AlphaInit == pass = PassInit /\ filter = FilterIdle /\ calc \in CalcInits

AlphaNext == CalcAlpha \/ CalcRef \/ CalcBand

AlphaSpec == AlphaInit /\ [][AlphaNext]_vars

(***************************************************************************)
(* Properties.                                                             *)
(***************************************************************************)
\* the raw button value of a frame, as updatePowerState reads it
Raw(v) == v = 1

\* C1: in both modules state_on flips in a frame exactly when the raw power
\* value is true in that frame and was false in the frame before (false before
\* the first frame), and is unchanged in every other frame.
C1_PowerToggle ==
  [][/\ (pass'.state_on # pass.state_on)
          <=> (Raw(pass'.params.POWER_PARAM) /\ ~Raw(pass.params.POWER_PARAM))
     /\ (filter'.state_on # filter.state_on)
          <=> (Raw(filter'.params.POWER_PARAM) /\ ~Raw(filter.params.POWER_PARAM))]_vars

\* both modules are on; the Pass button is still held, the Filter button was
\* released after the frame that switched it on
C1_Witness ==
  /\ pass.state_on /\ Raw(pass.params.POWER_PARAM)
  /\ filter.state_on /\ ~Raw(filter.params.POWER_PARAM) /\ filter.frame >= 2

\* C2: state_on_sum and state_on_avg are never both true, neither at the end
\* of a frame nor between the two halves of updateModeStates.
C2_ModeExclusive ==
  /\ ~(pass.state_on_sum /\ pass.state_on_avg)
  /\ ~(pass.trace.mid_sum /\ pass.trace.mid_avg)

\* both buttons pressed in one frame: sum was set by the first half and
\* cleared again by the second
C2_Witness ==
  /\ pass.state_on
  /\ Raw(pass.params.SUM_PARAM) /\ Raw(pass.params.AVG_PARAM)
  /\ pass.trace.mid_sum /\ pass.state_on_avg /\ ~pass.state_on_sum

\* C3: a frame that ends with state_on = false leaves the output channel
\* count at 0, both mode flags false and both mode lights at 0.
C3_PowerOffReset ==
  ~pass.state_on =>
    /\ pass.outputs.channels = 0
    /\ ~pass.state_on_sum /\ ~pass.state_on_avg
    /\ pass.lights.SUM_LIGHT_LIGHT = 0 /\ pass.lights.AVG_LIGHT_LIGHT = 0

\* the frame switched the module off (the button is down) after a mode had
\* filled the buffer and the output had been written
C3_Witness ==
  /\ ~pass.state_on /\ Raw(pass.params.POWER_PARAM)
  /\ pass.voltages # <<>> /\ pass.outputs.voltages # <<>>
  /\ pass.trace.set_channels = 0

SumRises == Raw(pass'.params.SUM_PARAM) /\ ~Raw(pass.params.SUM_PARAM)

AvgRises == Raw(pass'.params.AVG_PARAM) /\ ~Raw(pass.params.AVG_PARAM)

\* C4 as claimed: in a powered-on frame that follows a powered-on frame, a
\* rising edge on one trigger leaves that trigger's flag true and the other
\* flag false, whatever the other trigger does.
C4_RisingEdgeWins ==
  [][(pass.state_on /\ pass'.state_on) =>
       /\ SumRises => (pass'.state_on_sum /\ ~pass'.state_on_avg)
       /\ AvgRises => (pass'.state_on_avg /\ ~pass'.state_on_sum)]_vars

\* C4 amended: the same, except that when both triggers rise in the same
\* frame the avg trigger, handled last, wins.
C4_RisingEdgeWins_AvgLast ==
  [][(pass.state_on /\ pass'.state_on) =>
       /\ (SumRises /\ ~AvgRises) => (pass'.state_on_sum /\ ~pass'.state_on_avg)
       /\ AvgRises => (pass'.state_on_avg /\ ~pass'.state_on_sum)]_vars

\* sum mode is selected while the avg button is down: the avg button was
\* down before and did not rise
C4_Witness ==
  /\ pass.state_on /\ pass.state_on_sum /\ ~pass.state_on_avg
  /\ Raw(pass.params.SUM_PARAM) /\ Raw(pass.params.AVG_PARAM)
  /\ pass.trace.mid_sum /\ ~pass.trace.mid_avg

\* C5: a Filter frame that ends with state_on = false sets the channel count
\* of all three outputs to 0 and writes no voltage to any output.
C5_FilterOffOutputs ==
  (filter.frame >= 1 /\ ~filter.state_on) =>
    \A k \in 1..Filter_OUTPUTS_LEN :
      /\ filter.outputs[k].channels = 0
      /\ filter.trace.set_channels[k] = 0
      /\ ~filter.trace.wrote[k]

\* the frame switched the Filter off after all three outputs had been written
C5_Witness ==
  /\ ~filter.state_on /\ Raw(filter.params.POWER_PARAM)
  /\ \A k \in 1..Filter_OUTPUTS_LEN : filter.outputs[k].voltages # <<>>

\* C6 as claimed: in a frame in which the band-pass output is disconnected the
\* three persisted values the band-pass stage uses stay as they were.
C6_BandStateUntouched ==
  [][(filter'.frame = filter.frame + 1 /\ ~filter'.outputs[OUT_2_OUTPUT].connected) =>
       /\ filter'.prevLowPassSample = filter.prevLowPassSample
       /\ filter'.prevHighPassSample = filter.prevHighPassSample
       /\ filter'.prevInputSample = filter.prevInputSample]_vars

\* lane i summed over the connected inputs that carry a lane i
C7_LaneSum(i) ==
  SumTo([k \in 1..Pass_INPUTS_LEN |->
           IF pass.inputs[k].connected /\ i <= Len(pass.inputs[k].voltages)
             THEN pass.inputs[k].voltages[i] ELSE 0], Pass_INPUTS_LEN)

\* the channel counts of the connected inputs, added up
C7_Total ==
  SumTo([k \in 1..Pass_INPUTS_LEN |->
           IF pass.inputs[k].connected THEN Len(pass.inputs[k].voltages) ELSE 0],
        Pass_INPUTS_LEN)

\* C7: in a powered-on frame with a mode active and an input connected the
\* buffer holds, per lane, the sum over the connected inputs (sum mode) or that
\* sum divided by the total of their channel counts (average mode), and that
\* buffer is what is written; 4 V and 2 V on two 1-lane inputs give 3 V in
\* average mode and 6 V in sum mode.  Nothing of an earlier frame enters.
C7_SumAndAverage ==
  (/\ pass.state_on
   /\ pass.state_on_sum \/ pass.state_on_avg
   /\ \E k \in 1..Pass_INPUTS_LEN : pass.inputs[k].connected) =>
    /\ \A k \in 1..Pass_INPUTS_LEN : Len(pass.voltages) >= Len(pass.inputs[k].voltages)
    /\ \E k \in 1..Pass_INPUTS_LEN : Len(pass.voltages) = Len(pass.inputs[k].voltages)
    /\ \A i \in 1..Len(pass.voltages) :
         pass.voltages[i] = IF pass.state_on_avg THEN C7_LaneSum(i) \div C7_Total
                                                 ELSE C7_LaneSum(i)
    /\ C7_Total > 0 => (pass.trace.sent /\ pass.outputs.voltages = pass.voltages)
    /\ pass.inputs = <<Cable(<<4000>>), Cable(<<2000>>), Disconnected>> =>
         pass.outputs.voltages = IF pass.state_on_avg THEN <<3000>> ELSE <<6000>>

\* average mode over inputs of 1, 1 and MaxChannels lanes: lane 1 is the sum of
\* the three first lanes divided by the 2 + MaxChannels channels read
C7_Witness ==
  /\ pass.state_on /\ pass.state_on_avg /\ pass.trace.sent
  /\ \A k \in 1..Pass_INPUTS_LEN : pass.inputs[k].connected
  /\ Len(pass.inputs[1].voltages) = 1
  /\ Len(pass.voltages) = MaxChannels
  /\ pass.voltages[1] = (4000 + 2000 - 1000) \div (2 + MaxChannels)

\* C8 as claimed: calculateAlpha(10000, 44100) = calculateAlpha(22050, 44100).
C8_AlphaClamp10000 ==
  (/\ calc.done /\ calc.ref_done
   /\ calc.cutoff = 10000 /\ calc.ref = 22050 /\ calc.sampleRate = 44100) =>
    calc.alpha = calc.ref_alpha

\* C8 amended: at 44100 Hz calculateAlpha(c) equals calculateAlpha(22050)
\* exactly for |c| >= 22050; 10000 is below the Nyquist value, is not clamped
\* and gives a strictly smaller alpha.
C8_AlphaClampAboveNyquist ==
  (calc.done /\ calc.ref_done /\ calc.ref = 22050 /\ calc.sampleRate = 44100) =>
    /\ (calc.alpha = calc.ref_alpha) <=> (Abs(calc.cutoff) >= 22050)
    /\ calc.cutoff = 10000 =>
         calc.alpha.n * calc.ref_alpha.d < calc.ref_alpha.n * calc.alpha.d

\* both calls of the claim were made
C8_Witness ==
  /\ calc.done /\ calc.ref_done
  /\ calc.cutoff = 10000 /\ calc.ref = 22050 /\ calc.sampleRate = 44100
  /\ calc.alpha # calc.ref_alpha

\* alpha is in [0, 1] and is computed from twice the effective cutoff e2
C9_AlphaOk(alpha, e2, cutoff, sampleRate) ==
  /\ alpha.d > 0 /\ 0 <= alpha.n /\ alpha.n <= alpha.d
  /\ e2 = Min(2 * Abs(cutoff), sampleRate)
  /\ alpha = Frac(PiNum * e2, PiNum * e2 + PiDen * sampleRate)

\* C9: for every cutoff of either sign, the band-pass stage's |cutoff - 5|
\* and |cutoff + 5| included, and every positive sample rate, calculateAlpha
\* returns 0 <= alpha <= 1 computed from min(|cutoff|, sampleRate / 2).
C9_AlphaBounds ==
  /\ calc.done => C9_AlphaOk(calc.alpha, calc.eff2, calc.cutoff, calc.sampleRate)
  /\ calc.band_done =>
       /\ C9_AlphaOk(calc.alphaLow, calc.lowEff2,
                     Abs(calc.cutoff - BandOffset), calc.sampleRate)
       /\ C9_AlphaOk(calc.alphaHigh, calc.highEff2,
                     Abs(calc.cutoff + BandOffset), calc.sampleRate)

\* a negative cutoff beyond the Nyquist value, and the band-pass pair as well
C9_Witness ==
  /\ calc.done /\ calc.band_done
  /\ calc.cutoff < 0 /\ 2 * Abs(calc.cutoff) > calc.sampleRate
  /\ calc.eff2 = calc.sampleRate

\* C10: applyAverage is never executed while num_channels is 0.
C10_NoZeroDivisor == pass.trace.avg_div # 0

\* average mode read the inputs, found no lane, and skipped applyAverage
C10_Witness ==
  /\ pass.state_on /\ pass.state_on_avg /\ pass.trace.read
  /\ pass.num_channels = 0 /\ pass.trace.avg_div = -1
  /\ \E k \in 1..Pass_INPUTS_LEN : pass.inputs[k].connected

\* C11: after every frame, powered on or off, last_state_sum and
\* last_state_avg equal that frame's raw sum and avg values, so the first
\* powered-on frame after a power-off compares against the frame just before.
C11_ModeEdgeTracksEveryFrame ==
  /\ pass.last_state_sum = Raw(pass.params.SUM_PARAM)
  /\ pass.last_state_avg = Raw(pass.params.AVG_PARAM)

\* the frame was a powered-on frame of the Filter
FilterRan == filter'.frame = filter.frame + 1 /\ filter'.state_on

\* C12: a stage called while its own output is disconnected changes nothing:
\* the buffer and the three persisted samples are after the call what they
\* were before it, and the output's channel count and voltages are untouched.
C12_DisconnectedStageNoOp ==
  [][FilterRan =>
       \A k \in 1..Filter_OUTPUTS_LEN :
         ~filter'.outputs[k].connected =>
           /\ filter'.trace.after[k + 1] = filter'.trace.after[k]
           /\ filter'.trace.set_channels[k] = -1
           /\ ~filter'.trace.wrote[k]
           /\ filter'.outputs[k].channels = filter.outputs[k].channels
           /\ filter'.outputs[k].voltages = filter.outputs[k].voltages]_vars

\* the band-pass output is unplugged and keeps what an earlier frame wrote,
\* while the low-pass stage before it and the high-pass stage after it ran
C12_Witness ==
  /\ filter.state_on /\ filter.frame >= 2
  /\ ~filter.outputs[OUT_2_OUTPUT].connected
  /\ filter.outputs[OUT_2_OUTPUT].voltages # <<>>
  /\ filter.outputs[OUT_2_OUTPUT].channels > 0
  /\ filter.trace.wrote[OUT_1_OUTPUT] /\ filter.trace.wrote[OUT_3_OUTPUT]
  /\ filter.trace.after[2].voltages # <<>>

\* the last lane of a buffer
LastLane(v) == v[Len(v)]

\* C13: the high-pass stage computes y = alpha (prevHigh + x - prevInput) per
\* lane and afterwards remembers y as the previous high-pass output and the
\* incoming x as the previous input.
C13_HighPassRemembersInput ==
  (/\ filter.frame >= 1 /\ filter.state_on
   /\ filter.outputs[OUT_3_OUTPUT].connected
   /\ filter.trace.after[3].voltages # <<>>) =>
    LET before == filter.trace.after[3]
        alpha == calculateAlpha(filter.params.FRQ_PARAM, filter.sampleRate)
    IN /\ filter.trace.after[4].voltages[1]
            = Times(alpha, before.prevHighPassSample + before.voltages[1]
                             - before.prevInputSample)
       /\ filter.prevHighPassSample = LastLane(filter.trace.after[4].voltages)
       /\ filter.prevInputSample = LastLane(before.voltages)

\* C14: in a powered-on frame the stages run in the order low, band, high on
\* one buffer: each connected stage works on the buffer as the stage before
\* left it (the input lanes for the first), sets its output's channel count
\* to the lane count and writes the buffer as it is at the end of that stage.
C14_StageOrder ==
  (filter.frame >= 1 /\ filter.state_on) =>
    LET a == filter.trace.after
        n == Len(filter.inputs.voltages)
        cutoff == filter.params.FRQ_PARAM
        alpha == calculateAlpha(cutoff, filter.sampleRate)
        alphaLow == calculateAlpha(Abs(cutoff - BandOffset), filter.sampleRate)
        alphaHigh == calculateAlpha(Abs(cutoff + BandOffset), filter.sampleRate)
        ran(k) == filter.outputs[k].connected
    IN /\ a[1].voltages = filter.inputs.voltages
       /\ a[2] = IF ran(OUT_1_OUTPUT) THEN LowPassLoop(a[1], 1, alpha) ELSE a[1]
       /\ a[3] = IF ran(OUT_2_OUTPUT) THEN BandPassLoop(a[2], 1, alphaLow, alphaHigh)
                                      ELSE a[2]
       /\ a[4] = IF ran(OUT_3_OUTPUT) THEN HighPassLoop(a[3], 1, alpha) ELSE a[3]
       /\ Snap(filter) = a[4]
       /\ \A k \in 1..Filter_OUTPUTS_LEN :
            ran(k) => /\ filter.trace.set_channels[k] = n
                      /\ filter.outputs[k].channels = n
                      /\ filter.trace.wrote[k]
                      /\ filter.trace.written[k] = a[k + 1].voltages
                      /\ filter.outputs[k].voltages = a[k + 1].voltages

\* all three stages ran on MaxChannels lanes and wrote three different buffers
C14_Witness ==
  /\ filter.frame >= 1 /\ filter.state_on
  /\ \A k \in 1..Filter_OUTPUTS_LEN : filter.outputs[k].connected
  /\ Len(filter.inputs.voltages) = MaxChannels
  /\ filter.trace.written[OUT_1_OUTPUT] # filter.inputs.voltages
  /\ filter.trace.written[OUT_2_OUTPUT] # filter.trace.written[OUT_1_OUTPUT]
  /\ filter.trace.written[OUT_3_OUTPUT] # filter.trace.written[OUT_2_OUTPUT]

\* the frame was a powered-on frame of the Filter with the input unplugged
FilterRanDry == FilterRan /\ ~filter'.inputs.connected

\* the three persisted samples are what they were before the frame
SamplesKept ==
  /\ filter'.prevLowPassSample = filter.prevLowPassSample
  /\ filter'.prevHighPassSample = filter.prevHighPassSample
  /\ filter'.prevInputSample = filter.prevInputSample

\* C15 as claimed: in a powered-on frame with the input unplugged the buffer
\* is empty, no persisted sample changes and no output gets a channel-count
\* assignment or a voltage write, whichever outputs are connected.
C15_DryFrameTouchesNothing ==
  [][FilterRanDry =>
       /\ filter'.voltages = <<>>
       /\ SamplesKept
       /\ \A k \in 1..Filter_OUTPUTS_LEN :
            filter'.trace.set_channels[k] = -1 /\ ~filter'.trace.wrote[k]]_vars

\* C15 amended: the buffer is empty and no persisted sample changes; every
\* connected output is assigned the channel count 0 and gets a write of the
\* empty buffer (no lane value), every unplugged output gets neither.
C15_DryFrameZeroesConnected ==
  [][FilterRanDry =>
       /\ filter'.voltages = <<>>
       /\ SamplesKept
       /\ \A k \in 1..Filter_OUTPUTS_LEN :
            IF filter'.outputs[k].connected
              THEN /\ filter'.trace.set_channels[k] = 0
                   /\ filter'.outputs[k].channels = 0
                   /\ filter'.trace.wrote[k]
                   /\ filter'.trace.written[k] = <<>>
              ELSE /\ filter'.trace.set_channels[k] = -1
                   /\ ~filter'.trace.wrote[k]
                   /\ filter'.outputs[k].channels = filter.outputs[k].channels
                   /\ filter'.outputs[k].voltages = filter.outputs[k].voltages]_vars

\* the input was unplugged after a frame that had filtered a signal: the
\* samples are not 0, the low-pass output is connected and now has 0 channels
C15_Witness ==
  /\ filter.frame >= 2 /\ filter.state_on /\ ~filter.inputs.connected
  /\ filter.prevLowPassSample # 0 /\ filter.prevInputSample # 0
  /\ filter.outputs[OUT_1_OUTPUT].connected
  /\ filter.trace.set_channels[OUT_1_OUTPUT] = 0
  /\ ~filter.outputs[OUT_3_OUTPUT].connected

\* the frame ended powered on with neither mode flag set
PassIdleFrame == pass'.state_on /\ ~pass'.state_on_sum /\ ~pass'.state_on_avg

\* C16 as claimed: a neither-mode frame reads nothing and keeps voltages and
\* num_channels, a power-off frame keeps them too, and the first frame after
\* power-off then power-on with no mode pressed, an active-mode frame having
\* run before (a last_state flag is set only by such a frame), re-writes the
\* buffer with channel count 1.
C16_IdleFrameRewrites ==
  [][/\ (PassIdleFrame \/ ~pass'.state_on) =>
          /\ ~pass'.trace.read
          /\ pass'.voltages = pass.voltages
          /\ pass'.num_channels = pass.num_channels
     /\ (/\ ~pass.state_on
         /\ pass.last_state_sum \/ pass.last_state_avg
         /\ PassIdleFrame) =>
          /\ pass'.trace.sent
          /\ pass'.outputs = [channels |-> 1, voltages |-> pass.voltages]]_vars

\* C16: a neither-mode frame reads nothing and keeps voltages and
\* num_channels, a power-off frame keeps them too; the neither-mode frame
\* re-writes the kept buffer with channel count 1 when the kept num_channels
\* is above 0, and otherwise writes nothing and assigns no channel count.
C16_IdleFrameRewritesIfCounted ==
  [][/\ (PassIdleFrame \/ ~pass'.state_on) =>
          /\ ~pass'.trace.read
          /\ pass'.voltages = pass.voltages
          /\ pass'.num_channels = pass.num_channels
     /\ PassIdleFrame =>
          IF pass.num_channels > 0
            THEN /\ pass'.trace.sent
                 /\ pass'.outputs = [channels |-> 1, voltages |-> pass.voltages]
            ELSE /\ ~pass'.trace.sent
                 /\ pass'.trace.set_channels = -1
                 /\ pass'.outputs = pass.outputs]_vars

\* powered on with no mode, every input now unplugged, and the buffer of the
\* last active-mode frame written once more
C16_Witness ==
  /\ pass.state_on /\ ~pass.state_on_sum /\ ~pass.state_on_avg
  /\ ~pass.trace.read /\ pass.trace.sent
  /\ \A k \in 1..Pass_INPUTS_LEN : ~pass.inputs[k].connected
  /\ Len(pass.voltages) = MaxChannels
  /\ pass.outputs = [channels |-> 1, voltages |-> pass.voltages]

\* the channel counts of the connected inputs
C17_Counts == {getChannels(pass.inputs[k]) : k \in {j \in 1..Pass_INPUTS_LEN : pass.inputs[j].connected}}

\* the largest of the channel counts of the connected inputs, 0 if none is
C17_Max == IF C17_Counts = {} THEN 0 ELSE CHOOSE c \in C17_Counts : \A d \in C17_Counts : d <= c

\* the connected inputs that carry at least one lane
C17_Carrying == {k \in 1..Pass_INPUTS_LEN : pass.inputs[k].connected /\ getChannels(pass.inputs[k]) > 0}

\* what C17 says of the total and the length in every case
C17_TotalAndLength ==
  /\ pass.trace.read => (pass.num_channels = C7_Total /\ Len(pass.voltages) = C17_Max)
  /\ pass.num_channels >= Len(pass.voltages)

\* C17 as claimed: after processInputs num_channels is the sum and the buffer
\* length the maximum of the connected channel counts, num_channels is never
\* below the length, and it is above it only when the connected inputs have
\* differing channel counts.
C17_ExceedsOnlyIfDiffering ==
  /\ C17_TotalAndLength
  /\ (pass.trace.read /\ pass.num_channels > Len(pass.voltages)) => Cardinality(C17_Counts) > 1

\* C17: after processInputs num_channels is the sum and the buffer length the
\* maximum of the connected channel counts, num_channels is never below the
\* length, and it is above it exactly when two or more connected inputs carry
\* a lane, equal counts included.
C17_ExceedsIffTwoCarry ==
  /\ C17_TotalAndLength
  /\ pass.trace.read => (pass.num_channels > Len(pass.voltages) <=> Cardinality(C17_Carrying) > 1)

\* two 1-lane inputs: the counts do not differ and the total is twice the length
C17_Witness ==
  /\ pass.trace.read
  /\ pass.inputs[1].connected /\ pass.inputs[2].connected /\ ~pass.inputs[3].connected
  /\ getChannels(pass.inputs[1]) = 1 /\ getChannels(pass.inputs[2]) = 1
  /\ pass.num_channels = 2 /\ Len(pass.voltages) = 1

\* C18: a frame that writes the output sets its channel count to 1 whatever
\* the buffer length, and no frame sets a channel count other than 0 or 1.
C18_OutputChannelsOne ==
  /\ pass.trace.sent => (pass.trace.set_channels = 1 /\ pass.outputs.channels = 1)
  /\ pass.trace.set_channels \in {-1, 0, 1}
  /\ pass.outputs.channels \in {0, 1}

\* a buffer of more than one lane written with channel count 1
C18_Witness ==
  /\ pass.trace.sent /\ Len(pass.outputs.voltages) > 1
  /\ pass.outputs.voltages = pass.voltages
  /\ pass.outputs.channels = 1

\* C19: from a powered-on frame end with a mode flag set, every frame that
\* ends powered on ends with exactly one mode flag set, whatever the buttons
\* do; a powered-on frame end with neither flag follows only a powered-off
\* frame end or another neither-flag one.
C19_ModeSticksWhileOn ==
  [][/\ (pass.state_on /\ (pass.state_on_sum \/ pass.state_on_avg) /\ pass'.state_on) =>
          (pass'.state_on_sum # pass'.state_on_avg)
     /\ PassIdleFrame =>
          (~pass.state_on \/ (~pass.state_on_sum /\ ~pass.state_on_avg))]_vars

\* a mode entered in an earlier frame is still the one mode, its button
\* released and the other button not pressed
C19_Witness ==
  /\ pass.state_on /\ pass.state_on_sum /\ ~pass.state_on_avg
  /\ ~pass.trace.mid_avg
  /\ pass.params.SUM_PARAM = 0 /\ pass.params.AVG_PARAM = 0
  /\ ~pass.last_state_sum

\* C20: a powered-on frame with a mode active and no input connected clears
\* the buffer and num_channels, writes nothing and assigns no channel count,
\* so the output keeps the channel count and voltages it had; a channel count
\* of 1 stays 1 for as long as the frames end powered on.
C20_ModeWithoutInputKeepsOutput ==
  [][/\ (/\ pass'.state_on
         /\ pass'.state_on_sum \/ pass'.state_on_avg
         /\ \A k \in 1..Pass_INPUTS_LEN : ~pass'.inputs[k].connected) =>
          /\ pass'.trace.read
          /\ pass'.voltages = <<>>
          /\ pass'.num_channels = 0
          /\ ~pass'.trace.sent
          /\ pass'.trace.set_channels = -1
          /\ pass'.outputs = pass.outputs
     /\ (pass.state_on /\ pass.outputs.channels = 1 /\ pass'.state_on) =>
          pass'.outputs.channels = 1]_vars

\* a mode is active, nothing is plugged in, the buffer is empty, and the
\* output still shows one channel and the lanes of an earlier write
C20_Witness ==
  /\ pass.state_on /\ (pass.state_on_sum \/ pass.state_on_avg)
  /\ \A k \in 1..Pass_INPUTS_LEN : ~pass.inputs[k].connected
  /\ pass.trace.read /\ ~pass.trace.sent
  /\ pass.voltages = <<>> /\ pass.num_channels = 0
  /\ pass.outputs.channels = 1 /\ pass.outputs.voltages # <<>>

=============================================================================
